---- MODULE Spec2Model ----
(***************************************************************************)
(* RainFARM stochastic downscaling (pysteps.downscaling.rainfarm).         *)
(*                                                                         *)
(* downscale(P, alpha, ds_factor, threshold) is modelled statement by      *)
(* statement: pc is the position inside the call, the other variables are  *)
(* the locals of the call and the shared random source np.random.          *)
(*                                                                         *)
(* Numbers are floating-point numbers with a short mantissa (see below),   *)
(* with the IEEE-754 rules for the special values: x/0, 0/0 and inf*0      *)
(* raise nothing, and every comparison with NaN is false.  Arrays are      *)
(* sequences of rows; index i of the code is index i+1 here.               *)
(*                                                                         *)
(* A definition that is used several times by another one is handed to it  *)
(* as an argument, so that it is evaluated once.                           *)
(***************************************************************************)
EXTENDS Integers, Sequences, FiniteSets, TLC

VARIABLES
    pc,          \* position inside downscale: "idle" between calls
    P,           \* argument P: the input field, m rows of n values
    alpha_arg,   \* argument alpha: None or a number
    ds_factor,   \* argument ds_factor
    threshold,   \* argument threshold: None or a number
    rng,         \* state of the shared random source np.random
    rng0,        \* rng as it was when the current call started
    k,           \* radial frequency of the input grid (line 80)
    k_ds_sqr,    \* squared radial frequency of the upsampled grid (line 84)
    slope,       \* raw least-squares slope inside log_slope (line 33)
    alpha,       \* the decay exponent in use (argument or estimate)
    scale,       \* the array np.sqrt(k_ds_sqr ** (-alpha / 2)) of line 97
    fg,          \* complex spectrum
    g,           \* real synthetic field
    r,           \* exp(g), then the rescaled field, then the output
    P_u,         \* pixel-replicated input
    tophat,      \* disc kernel
    P_agg,       \* balanced local average of P_u
    r_agg,       \* balanced local average of r
    outcome,     \* "none" | "returned" | the exception raised to the caller
    first        \* the first completed call: its start state, arguments, result

vars == <<pc, P, alpha_arg, ds_factor, threshold, rng, rng0, k, k_ds_sqr,
          slope, alpha, scale, fg, g, r, P_u, tophat, P_agg, r_agg, outcome,
          first>>

None == <<>>

----------------------------------------------------------------------------
(* Floating-point numbers: numpy's float64 with a mantissa of PrecBits     *)
(* bits.  A finite number is <<m, e>>, the value m * 2^e, with m = 0 (and   *)
(* e = 0) or Top / 2 <= |m| < Top; NaN, +inf and -inf are <<0>>, <<1>> and  *)
(* <<-1>>.  Every operation rounds its exact result to the nearest         *)
(* number.  The exponent is unbounded (no value of the program comes near  *)
(* the float64 range, except through exp), and the zeros are unsigned.     *)

PrecBits == 8

Abs(a) == IF a < 0 THEN -a ELSE a

Sgn(a) == IF a < 0 THEN -1 ELSE IF a = 0 THEN 0 ELSE 1

Pow2(j) == 2 ^ j

Top == Pow2(PrecBits)

NaN == <<0>>
PInf == <<1>>
NInf == <<-1>>
Zero == <<0, 0>>

IsNaN(x) == x = NaN
IsInf(x) == Len(x) = 1 /\ x[1] # 0
IsFinite(x) == Len(x) = 2

\* floor(n / d + 1/2) for d > 0
RoundDiv(n, d) == (2 * n + d) \div (2 * d)

\* the number of low bits that a >= Top has beyond PrecBits
RECURSIVE Excess(_, _)
Excess(a, sh) == IF a < Top * Pow2(sh) THEN sh ELSE Excess(a, sh + 1)

\* the number of bits that 0 < a < Top is short of PrecBits
RECURSIVE Lack(_, _)
Lack(a, sh) == IF 2 * a * Pow2(sh) >= Top THEN sh ELSE Lack(a, sh + 1)

\* s * q * 2^e for a rounded mantissa q <= Top
Rounded(s, q, e) ==
    IF q = Top THEN <<s * (Top \div 2), e + 1>> ELSE <<s * q, e>>

\* s * a * 2^e with the sh low bits of a rounded away
Shorten(s, a, e, sh) == Rounded(s, RoundDiv(a, Pow2(sh)), e + sh)

\* m * 2^e with m shifted up by sh bits
Widen(m, e, sh) == <<m * Pow2(sh), e - sh>>

\* s * a * 2^e for a > 0, rounded to the nearest number
Normal(s, a, e) ==
    IF a >= Top THEN Shorten(s, a, e, Excess(a, 1))
    ELSE Widen(s * a, e, Lack(a, 0))

\* m * 2^e for any integer m, rounded to the nearest number
Norm(m, e) == IF m = 0 THEN Zero ELSE Normal(Sgn(m), Abs(m), e)

Int2R(n) == Norm(n, 0)

One == Int2R(1)
Two == Int2R(2)

Neg(x) == IF IsFinite(x) THEN <<-x[1], x[2]>> ELSE <<-x[1]>>

\* the sum of two finite non-zero numbers, x with the exponent larger by d
Align(x, y, d) ==
    IF d > PrecBits + 1 THEN x ELSE Norm(x[1] * Pow2(d) + y[1], y[2])

Add(x, y) ==
    IF IsNaN(x) \/ IsNaN(y) THEN NaN
    ELSE IF IsInf(x) THEN (IF IsInf(y) /\ y # x THEN NaN ELSE x)
    ELSE IF IsInf(y) THEN y
    ELSE IF x[1] = 0 THEN y
    ELSE IF y[1] = 0 THEN x
    ELSE IF x[2] >= y[2] THEN Align(x, y, x[2] - y[2])
    ELSE Align(y, x, y[2] - x[2])

Sub(x, y) == Add(x, Neg(y))

Mul(x, y) ==
    IF IsNaN(x) \/ IsNaN(y) THEN NaN
    ELSE IF IsInf(x) \/ IsInf(y)
         THEN (IF x[1] = 0 \/ y[1] = 0 THEN NaN
               ELSE <<Sgn(x[1]) * Sgn(y[1])>>)
    ELSE IF x[1] = 0 \/ y[1] = 0 THEN Zero
    ELSE Norm(x[1] * y[1], x[2] + y[2])

\* x / y, without raising (numpy warns only): 0/0 and inf/inf are NaN,
\* x/0 is an infinity, x/inf is 0
Div(x, y) ==
    IF IsNaN(x) \/ IsNaN(y) THEN NaN
    ELSE IF IsInf(x)
         THEN (IF IsInf(y) THEN NaN
               ELSE <<Sgn(x[1]) * (IF y[1] < 0 THEN -1 ELSE 1)>>)
    ELSE IF IsInf(y) THEN Zero
    ELSE IF y[1] = 0 THEN (IF x[1] = 0 THEN NaN ELSE <<Sgn(x[1])>>)
    ELSE IF x[1] = 0 THEN Zero
    ELSE Normal(Sgn(x[1]) * Sgn(y[1]),
                RoundDiv(Abs(x[1]) * 2 * Top, Abs(y[1])),
                x[2] - y[2] - PrecBits - 1)

\* n / d for integers n and d
Frac(n, d) == Div(Int2R(n), Int2R(d))

Half == Frac(1, 2)

\* x < y; every comparison with NaN is False
Lt(x, y) ==
    IF IsNaN(x) \/ IsNaN(y) THEN FALSE
    ELSE IF IsInf(x) THEN x[1] < 0 /\ y # x
    ELSE IF IsInf(y) THEN y[1] > 0
    ELSE Sub(x, y)[1] < 0

Le(x, y) ==
    IF IsNaN(x) \/ IsNaN(y) THEN FALSE ELSE x = y \/ Lt(x, y)

\* a finite x is an integer
IsInt(x) ==
    \/ x[2] >= 0
    \/ x[2] > -PrecBits /\ x[1] % Pow2(-x[2]) = 0

\* the integer nearest to a finite x
Round(x) ==
    IF x[2] >= 0 THEN x[1] * Pow2(x[2])
    ELSE IF x[2] < -PrecBits - 1 THEN 0
    ELSE RoundDiv(x[1], Pow2(-x[2]))

----------------------------------------------------------------------------
(* Library functions.                                                      *)

\* floor(sqrt(v)) for v >= 0, by bisection: lo^2 <= v < hi^2
RECURSIVE Bisect(_, _, _)
Bisect(v, lo, hi) ==
    IF hi - lo <= 1 THEN lo
    ELSE IF ((lo + hi) \div 2) * ((lo + hi) \div 2) <= v
         THEN Bisect(v, (lo + hi) \div 2, hi)
    ELSE Bisect(v, lo, (lo + hi) \div 2)

ISqrt(v) == Bisect(v, 0, 4 * Top)

\* sqrt(v) rounded to the nearest integer
RSqrt(v) == (ISqrt(4 * v) + 1) \div 2

\* sqrt(v * 2^e) for an even e and a v of about 2 * PrecBits bits
SqrtEven(v, e) == Norm(RSqrt(v), e \div 2)

\* np.sqrt and the square root inside std(): correctly rounded, hence
\* exact on squares; the square root of a negative number is NaN
Sqrt(x) ==
    IF IsNaN(x) THEN NaN
    ELSE IF IsInf(x) THEN (IF x[1] > 0 THEN PInf ELSE NaN)
    ELSE IF x[1] < 0 THEN NaN
    ELSE IF x[1] = 0 THEN Zero
    ELSE IF (x[2] - PrecBits) % 2 = 0
         THEN SqrtEven(x[1] * Pow2(PrecBits), x[2] - PrecBits)
    ELSE SqrtEven(x[1] * Pow2(PrecBits + 1), x[2] - PrecBits - 1)

\* ln 2
Ln2 == Norm(11357, -14)

\* 1 + u2 / 3 + u2^2 / 5 + u2^3 / 7
LogSeries(u2) ==
    Add(One, Mul(u2, Add(Frac(1, 3), Mul(u2, Add(Frac(1, 5),
                                                 Mul(u2, Frac(1, 7)))))))

\* ln((1 + u) / (1 - u)) = 2 u (1 + u^2 / 3 + u^4 / 5 + ...)
LogRatio(u) == Mul(Mul(Two, u), LogSeries(Mul(u, u)))

\* ln f for 1 <= f < 2
LogMant(f) == LogRatio(Div(Sub(f, One), Add(f, One)))

\* np.log: log 0 = -inf (a warning), the log of a negative number is NaN,
\* log 1 = 0; otherwise x = f * 2^e with 1 <= f < 2, ln x = e ln 2 + ln f
Log(x) ==
    IF IsNaN(x) THEN NaN
    ELSE IF IsInf(x) THEN (IF x[1] > 0 THEN PInf ELSE NaN)
    ELSE IF x[1] < 0 THEN NaN
    ELSE IF x[1] = 0 THEN NInf
    ELSE Add(Mul(Int2R(x[2] + PrecBits - 1), Ln2),
             LogMant(<<x[1], 1 - PrecBits>>))

\* 1 + t (1 + t/2 (1 + t/3 (1 + t/4)))
ExpSeries(t) ==
    Add(One, Mul(t, Add(One, Mul(Mul(t, Half),
        Add(One, Mul(Mul(t, Frac(1, 3)), Add(One, Mul(t, Frac(1, 4)))))))))

\* s * 2^q for a finite s # 0
Shift(s, q) == <<s[1], s[2] + q>>

\* exp x for x = q ln 2 + t with |t| <= (ln 2) / 2
ExpReduced(x, q) == Shift(ExpSeries(Sub(x, Mul(Int2R(q), Ln2))), q)

\* np.exp: exp(-inf) = 0, exp(0) = 1, positive on every finite argument
\* down to the underflow at -746 and finite up to the overflow at 710
Exp(x) ==
    IF IsNaN(x) THEN NaN
    ELSE IF IsInf(x) THEN (IF x[1] > 0 THEN PInf ELSE Zero)
    ELSE IF Lt(Int2R(710), x) THEN PInf
    ELSE IF Lt(x, Int2R(-746)) THEN Zero
    ELSE ExpReduced(x, Round(Div(x, Ln2)))

\* x ** n for an integer n >= 0
RECURSIVE IntPow(_, _)
IntPow(x, n) == IF n = 0 THEN One ELSE Mul(x, IntPow(x, n - 1))

\* x ** n for an integer n
PowInt(x, n) == IF n >= 0 THEN IntPow(x, n) ELSE Div(One, IntPow(x, -n))

\* x ** y for a finite x >= 0 and a finite y, as numpy computes it:
\* 0 ** negative = inf (a warning, no exception), 0 ** 0 = 1,
\* 0 ** positive = 0; exact where the power is a number, so by repeated
\* products for a small integer y and through Sqrt for a small half-integer
\* y; through exp and log otherwise
Pow(x, y) ==
    IF IsNaN(x) \/ IsNaN(y) THEN NaN
    ELSE IF x[1] = 0
         THEN (IF y[1] < 0 THEN PInf ELSE IF y[1] = 0 THEN One ELSE Zero)
    ELSE IF IsInt(y) /\ Abs(Round(y)) <= 4 THEN PowInt(x, Round(y))
    ELSE IF IsInt(Mul(y, Two)) /\ Abs(Round(Mul(y, Two))) <= 8
         THEN PowInt(Sqrt(x), Round(Mul(y, Two)))
    ELSE Exp(Mul(y, Log(x)))

----------------------------------------------------------------------------
(* Arrays and complex numbers.                                             *)

Rows(A) == Len(A)
Cols(A) == Len(A[1])
Shape(A) == <<Rows(A), Cols(A)>>

\* the sequence f(1), ..., f(n); the concatenation makes TLC evaluate the
\* elements once, when the sequence is built, and not at every access
Vector(n, f(_)) == [i \in 1..n |-> f(i)] \o <<>>

\* an array of the given shape filled by f(i, j), i and j counted from 1
Array(m, n, f(_, _)) == Vector(m, LAMBDA i : Vector(n, LAMBDA j : f(i, j)))

\* 1, ..., n
Indices(n) == Vector(n, LAMBDA c : c)

\* x[sel]: the elements of x at the indices sel
Take(x, sel) == Vector(Len(sel), LAMBDA c : x[sel[c]])

Square(x) == Mul(x, x)

\* a complex number is <<re, im>>
CZero == <<Zero, Zero>>
CAdd(z, w) == <<Add(z[1], w[1]), Add(z[2], w[2])>>

\* complex product, as numpy forms it from the four real products
CMul(z, w) ==
    <<Sub(Mul(z[1], w[1]), Mul(z[2], w[2])),
      Add(Mul(z[1], w[2]), Mul(z[2], w[1]))>>

\* abs(z)
CAbs(z) == Sqrt(Add(Square(z[1]), Square(z[2])))

\* z * i^t for t in 0..3
MulUnit(z, t) ==
    IF t = 0 THEN z
    ELSE IF t = 1 THEN <<Neg(z[2]), z[1]>>
    ELSE IF t = 2 THEN <<Neg(z[1]), Neg(z[2])>>
    ELSE <<z[2], Neg(z[1])>>

\* the transform lengths whose roots of unity are powers of i, so that the
\* twiddle factors of the discrete Fourier transform are exact
DftSizes == {1, 2, 4}

RECURSIVE CSum(_, _, _)
CSum(f, lo, hi) == IF lo > hi THEN CZero ELSE CAdd(f[lo], CSum(f, lo + 1, hi))

\* one-dimensional transform of a sequence of length N in DftSizes:
\* out[u] = sum_x seq[x] * exp(sign * 2 pi i * u * x / N)
Dft1(seq, sign) ==
    LET N == Len(seq)
        term(u, x) ==
            MulUnit(seq[x], (sign * (u - 1) * (x - 1) * (4 \div N)) % 4)
    IN  Vector(N, LAMBDA u : CSum(Vector(N, LAMBDA x : term(u, x)), 1, N))

\* column j of an array
Column(A, j) == Vector(Rows(A), LAMBDA i : A[i][j])

\* the transposed array
Transpose(A) == Vector(Cols(A), LAMBDA j : Column(A, j))

\* the transform of every row
DftRows(A, sign) == Vector(Rows(A), LAMBDA i : Dft1(A[i], sign))

\* two-dimensional transform: along the rows, then along the columns
Dft2(A, sign) ==
    Transpose(DftRows(Transpose(DftRows(A, sign)), sign))

\* np.fft.fft2 of a real array
fft2(A) ==
    Dft2(Array(Rows(A), Cols(A), LAMBDA i, j : <<A[i][j], Zero>>), -1)

\* the real parts of T, each divided by n
RealOver(T, n) ==
    Array(Rows(T), Cols(T), LAMBDA i, j : Div(T[i][j][1], Int2R(n)))

\* np.fft.ifft2(A).real
ifft2_real(A) == RealOver(Dft2(A, 1), Rows(A) * Cols(A))

\* np.fft.fftfreq(n, d): [0, 1, ..., (n-1)//2, -(n//2), ..., -1] / (d * n)
fftfreq(n, d) ==
    Vector(n, LAMBDA i :
        Div(Int2R(IF i - 1 <= (n - 1) \div 2 THEN i - 1 ELSE i - 1 - n),
            Mul(d, Int2R(n))))

\* ki[:, None] ** 2 + kj[None, :] ** 2
SqrGrid(ki, kj) ==
    Array(Len(ki), Len(kj), LAMBDA i, j : Add(Square(ki[i]), Square(kj[j])))

\* elementwise np.sqrt
SqrtGrid(A) == Array(Rows(A), Cols(A), LAMBDA i, j : Sqrt(A[i][j]))

----------------------------------------------------------------------------
(* Spectral slope estimator: lines 87-92 of downscale, and log_slope.      *)

RECURSIVE RSum(_, _, _)
RSum(f, lo, hi) == IF lo > hi THEN Zero ELSE Add(f[lo], RSum(f, lo + 1, hi))

Min2(a, b) == IF Lt(a, b) THEN a ELSE b
Max2(a, b) == IF Lt(b, a) THEN a ELSE b

\* the smallest and the largest of f[1..n], n >= 1
RECURSIVE SeqMin(_, _)
SeqMin(f, n) == IF n = 1 THEN f[1] ELSE Min2(f[n], SeqMin(f, n - 1))

RECURSIVE SeqMax(_, _)
SeqMax(f, n) == IF n = 1 THEN f[1] ELSE Max2(f[n], SeqMax(f, n - 1))

\* row and column of the c-th cell, in row-major order, of an array with
\* n columns
CellRow(c, n) == ((c - 1) \div n) + 1
CellCol(c, n) == ((c - 1) % n) + 1

\* the entries of A at the cells given
TakeCells(A, cells) ==
    Vector(Len(cells), LAMBDA c :
        A[CellRow(cells[c], Cols(A))][CellCol(cells[c], Cols(A))])

\* A[mask]: the entries of A where mask holds, in row-major order
Masked(A, mask(_, _)) ==
    TakeCells(A, SelectSeq(Indices(Rows(A) * Cols(A)),
                           LAMBDA c : mask(CellRow(c, Cols(A)),
                                           CellCol(c, Cols(A)))))

\* np.log of a vector
LogVector(x) == Vector(Len(x), LAMBDA c : Log(x[c]))

\* np.log(abs(fp) ** 2), elementwise
LogPower(fp) ==
    Array(Rows(fp), Cols(fp), LAMBDA i, j : Log(Square(CAbs(fp[i][j]))))

\* lines 88-90: log(abs(fft2(P)) ** 2)
LogPowerSpectrum(A) == LogPower(fft2(A))

Mean(x) == Div(RSum(x, 1, Len(x)), Int2R(Len(x)))

Centred(x, xm) == Vector(Len(x), LAMBDA i : Sub(x[i], xm))

Dot(a, b) == RSum(Vector(Len(a), LAMBDA i : Mul(a[i], b[i])), 1, Len(a))

\* the least-squares slope from the centred abscissae and ordinates
LeastSquares(dx, dy) == Div(Dot(dx, dy), Dot(dx, dx))

\* np.polyfit(x, y, 1)[0] for len(x) > 0: the least-squares slope; when all
\* x are equal the system has rank 1, polyfit warns (RankWarning) and
\* returns lstsq's minimum-norm solution of the column-scaled system, whose
\* slope is mean(y) / (2 x)
polyfit(x, y) ==
    IF \A i \in 1..Len(x) : x[i] = x[1] THEN Div(Mean(y), Mul(Two, x[1]))
    ELSE LeastSquares(Centred(x, Mean(x)), Centred(y, Mean(y)))

\* line 33: the fit on the selection; polyfit of an empty selection raises
\* TypeError
Fit(lk_sel, ps_sel) ==
    IF Len(lk_sel) = 0 THEN [raises |-> "TypeError", slope |-> None]
    ELSE [raises |-> "none", slope |-> polyfit(lk_sel, ps_sel)]

\* lines 31-33: the fit on the selected elements
FitSelected(log_k, log_power_spectrum, selected) ==
    Fit(Take(log_k, selected), Take(log_power_spectrum, selected))

\* line 29: selected = (lk_min <= log_k) & (log_k <= lk_max)
Window(log_k, log_power_spectrum, lk_min, lk_max) ==
    FitSelected(log_k, log_power_spectrum,
                SelectSeq(Indices(Len(log_k)),
                    LAMBDA c : Le(lk_min, log_k[c]) /\ Le(log_k[c], lk_max)))

\* lines 24-26: a sixth of the range is cut off at either end
Trim(log_k, log_power_spectrum, lk_min, lk_max) ==
    Window(log_k, log_power_spectrum,
           Add(lk_min, Mul(Frac(1, 6), Sub(lk_max, lk_min))),
           Sub(lk_max, Mul(Frac(1, 6), Sub(lk_max, lk_min))))

\* log_slope up to the fit: the exception it raises, or the fitted slope
\* (which line 34 negates).  min() of an empty array raises ValueError.
log_slope(log_k, log_power_spectrum) ==
    IF Len(log_k) = 0 THEN [raises |-> "ValueError", slope |-> None]
    ELSE Trim(log_k, log_power_spectrum,
              SeqMin(log_k, Len(log_k)), SeqMax(log_k, Len(log_k)))

\* lines 91-92: valid = (k != 0) & np.isfinite(log_power_spectrum)
SlopeOf(kk, lps) ==
    LET valid(i, j) == kk[i][j] # Zero /\ IsFinite(lps[i][j])
    IN  log_slope(LogVector(Masked(kk, valid)), Masked(lps, valid))

\* lines 88-92: the arguments handed to log_slope, and its result
EstimateSlope(A, kk) == SlopeOf(kk, LogPowerSpectrum(A))

----------------------------------------------------------------------------
(* The shared random source.  np.random.rand draws one uniform number per  *)
(* array element, in row-major order, and advances the generator once per  *)
(* draw.  The generator is a counter modulo RngMod.  A draw is 0 or 1/2:   *)
(* the draws u for which exp(2 pi i u) is real, 1 and -1 (the rounding     *)
(* residue of sin(pi), of the order of 1e-16, is taken as 0).              *)

RngMod == 2

RngNext(s) == (s + 1) % RngMod

RECURSIVE RngSkip(_, _)
RngSkip(s, n) == IF n = 0 THEN s ELSE RngSkip(RngNext(s), n - 1)

\* the number a generator state yields
RngOut(s) == IF 2 * s >= RngMod THEN Half ELSE Zero

\* np.random.rand(m, n) from state s: element (i, j) is draw (i-1)*n + j
rand(s, m, n) ==
    Array(m, n, LAMBDA i, j : RngOut(RngSkip(s, (i - 1) * n + j)))

\* exp(complex(0, 1) * 2 * pi * u) for u in {0, 1/2}
Phasor(u) == IF u = Zero THEN <<One, Zero>> ELSE <<Neg(One), Zero>>

----------------------------------------------------------------------------
(* Scale-invariant field synthesizer: lines 94-101.                        *)

\* the same factor with the square root left out
ScaleFactor_NoSqrt(ksqr, a) == Pow(ksqr, Mul(Neg(a), Half))

\* np.sqrt(k_ds_sqr ** (-alpha / 2)), one element
ScaleFactor(ksqr, a) == Sqrt(Pow(ksqr, Mul(Neg(a), Half)))

\* the sum of all elements of an array
Total(A) ==
    RSum(Vector(Rows(A), LAMBDA i : RSum(A[i], 1, Cols(A))), 1, Rows(A))

\* A.mean()
MeanOf(A) == Div(Total(A), Int2R(Rows(A) * Cols(A)))

\* abs(A - mean) ** 2
Deviation2(A, mean) ==
    Array(Rows(A), Cols(A), LAMBDA i, j : Square(Sub(A[i][j], mean)))

\* A.std(): the square root of the mean squared deviation from the mean
Std(A) == Sqrt(MeanOf(Deviation2(A, MeanOf(A))))

\* A / x, elementwise
Over(A, x) == Array(Rows(A), Cols(A), LAMBDA i, j : Div(A[i][j], x))

----------------------------------------------------------------------------
(* Conservative renormalizer: balanced_spatial_average and lines 103-114.  *)

\* np.repeat(P, D, axis=0) alone: the columns are not replicated
Repeat_Axis0(A, D) ==
    Array(Rows(A) * D, Cols(A), LAMBDA i, j : A[((i - 1) \div D) + 1][j])

\* np.repeat(np.repeat(P, D, axis=0), D, axis=1)
Repeat(A, D) ==
    Array(Rows(A) * D, Cols(A) * D,
          LAMBDA i, j : A[((i - 1) \div D) + 1][((j - 1) \div D) + 1])

\* int(round(D / sqrt(pi))), with pi = 355/113: the largest r >= 1 with
\* r - 1/2 <= D / sqrt(pi), or 0
Radius(D) ==
    LET ok == {q \in 1..D : (2 * q - 1) * (2 * q - 1) * 355 <= 4 * D * D * 113}
    IN  IF ok = {} THEN 0 ELSE CHOOSE q \in ok : \A p \in ok : p <= q

\* (mx ** 2 + my ** 2) <= rad ** 2 at cell (a, b) of the kernel
InDisc(a, b, rad) ==
    (a - 1 - rad) * (a - 1 - rad) + (b - 1 - rad) * (b - 1 - rad) <= rad * rad

\* tophat.sum() before the normalisation
DiscCount(rad) ==
    Cardinality({c \in (1..(2 * rad + 1)) \X (1..(2 * rad + 1)) :
                    InDisc(c[1], c[2], rad)})

\* lines 105-107: the normalised disc of radius rad, (2 rad + 1) square
TopHat(rad) ==
    Array(2 * rad + 1, 2 * rad + 1,
          LAMBDA a, b : IF InDisc(a, b, rad) THEN Frac(1, DiscCount(rad))
                        ELSE Zero)

\* index t (counted from 1, possibly outside 1..N) under mode='reflect':
\* (d c b a | a b c d | d c b a)
Reflect(t, N) ==
    IF (t - 1) % (2 * N) < N THEN ((t - 1) % (2 * N)) + 1
    ELSE 2 * N - ((t - 1) % (2 * N))

\* the cells <<a, b>> of the kernel with a non-zero weight, row by row
Taps(w) ==
    SelectSeq(Vector(Rows(w) * Cols(w), LAMBDA t :
                  <<CellRow(t, Cols(w)), CellCol(t, Cols(w))>>),
              LAMBDA t : w[t[1]][t[2]] # Zero)

\* the weighted sum over the taps, the kernel centred on each element
Correlate(x, w, taps) ==
    LET c == (Rows(w) \div 2) + 1
        term(i, j, t) ==
            Mul(w[t[1]][t[2]],
                x[Reflect(i - (t[1] - c), Rows(x))]
                 [Reflect(j - (t[2] - c), Cols(x))])
    IN  Array(Rows(x), Cols(x), LAMBDA i, j :
              RSum(Vector(Len(taps), LAMBDA t : term(i, j, taps[t])),
                   1, Len(taps)))

\* scipy.ndimage.convolve(x, w) with the default mode='reflect', origin 0:
\* the sum runs over the non-zero weights only
convolve(x, w) == Correlate(x, w, Taps(w))

\* np.ones_like(x)
ones_like(x) == Array(Rows(x), Cols(x), LAMBDA i, j : One)

\* A / B, elementwise
Ratio(A, B) == Array(Rows(A), Cols(A), LAMBDA i, j : Div(A[i][j], B[i][j]))

\* A * B, elementwise
Times(A, B) == Array(Rows(A), Cols(A), LAMBDA i, j : Mul(A[i][j], B[i][j]))

balanced_spatial_average(x, w) ==
    Ratio(convolve(x, w), convolve(ones_like(x), w))

----------------------------------------------------------------------------
(* The callers' arguments.                                                 *)

MaxVal == 1        \* rain rates are 0..MaxVal
MaxWet == 3        \* a wide field has at most this many rainy pixels
MaxFactor == 2     \* ds_factor is 1..MaxFactor

\* the fields of shape (m, n) with rates in 0..top, at most wet of them rainy
FieldsOf(m, n, top, wet) ==
    {Array(m, n, LAMBDA i, j : Int2R(f[<<i, j>>])) :
        f \in {h \in [(1..m) \X (1..n) -> 0..top] :
                  Cardinality({c \in (1..m) \X (1..n) : h[c] # 0}) <= wet}}

\* small fields, (m, n) and (m * ds_factor, n * ds_factor) in DftSizes
Shapes == {<<1, 1>>, <<1, 2>>, <<2, 2>>}

Fields == UNION {FieldsOf(s[1], s[2], MaxVal, 2) : s \in Shapes}

\* wide fields: rain / no-rain masks with enough frequencies for a fit
WideFields == FieldsOf(2, 4, 1, MaxWet)

\* the fields of the determinism check
DetFields == FieldsOf(1, 1, MaxVal, 1) \cup FieldsOf(1, 2, MaxVal, 1)

\* alpha: omitted, or a number (the code accepts any sign)
AlphaArgs == {None, Int2R(-2), Zero, Int2R(4)}

\* threshold: omitted, or a number
ThresholdArgs == {None, One}

----------------------------------------------------------------------------
(* downscale, statement by statement.                                      *)

\* lines 44, 77-85: the call binds the arguments and builds the two
\* frequency grids; the locals not yet assigned are None
Call(fields, alphas, thresholds) ==
    /\ pc = "idle"
    /\ \E field \in fields, a \in alphas, t \in thresholds,
          D \in 1..MaxFactor :
          /\ Rows(field) * D \in DftSizes
          /\ Cols(field) * D \in DftSizes
          /\ P' = field
          /\ alpha_arg' = a
          /\ ds_factor' = D
          /\ threshold' = t
          /\ k' = SqrtGrid(SqrGrid(fftfreq(Rows(field), One),
                                   fftfreq(Cols(field), One)))
          /\ k_ds_sqr' = SqrGrid(fftfreq(Rows(field) * D, Frac(1, D)),
                                 fftfreq(Cols(field) * D, Frac(1, D)))
          /\ alpha' = a
          /\ pc' = IF a = None THEN "estimate" ELSE "phases"
    /\ rng0' = rng
    /\ outcome' = "none"
    /\ UNCHANGED <<rng, slope, scale, fg, g, r, P_u, tophat, P_agg, r_agg,
                   first>>

\* log_slope without line 34: the slope is handed back as it was fitted
Estimated_NoNegation(res) ==
    IF res.raises # "none"
    THEN /\ outcome' = res.raises
         /\ pc' = "done"
         /\ UNCHANGED <<slope, alpha>>
    ELSE /\ slope' = res.slope
         /\ alpha' = res.slope
         /\ pc' = "phases"
         /\ UNCHANGED outcome

\* lines 33-36 and 92: log_slope raises, or alpha is the negated slope
Estimated(res) ==
    IF res.raises # "none"
    THEN /\ outcome' = res.raises
         /\ pc' = "done"
         /\ UNCHANGED <<slope, alpha>>
    ELSE /\ slope' = res.slope
         /\ alpha' = Neg(res.slope)
         /\ pc' = "phases"
         /\ UNCHANGED outcome

\* lines 87-92 and log_slope: estimate alpha, or raise
Estimate ==
    /\ pc = "estimate"
    /\ Estimated(EstimateSlope(P, k))
    /\ UNCHANGED <<P, alpha_arg, ds_factor, threshold, rng, rng0, k, k_ds_sqr,
                   scale, fg, g, r, P_u, tophat, P_agg, r_agg, first>>

\* exp(complex(0, 1) * 2 * np.pi * u), elementwise
Phasors(u) == Array(Rows(u), Cols(u), LAMBDA i, j : Phasor(u[i][j]))

\* line 94 with the generator seeded inside the first call to complete
Phases_SeededOnce ==
    /\ pc = "phases"
    /\ fg' = Phasors(rand(IF first = None THEN 0 ELSE rng,
                          Rows(k_ds_sqr), Cols(k_ds_sqr)))
    /\ rng' = RngSkip(rng, Rows(k_ds_sqr) * Cols(k_ds_sqr))
    /\ pc' = "scale"
    /\ UNCHANGED <<P, alpha_arg, ds_factor, threshold, rng0, k, k_ds_sqr,
                   slope, alpha, scale, g, r, P_u, tophat, P_agg, r_agg,
                   outcome, first>>

\* line 94: unit phasors with fresh random phases, one per element of k_ds
Phases ==
    /\ pc = "phases"
    /\ fg' = Phasors(rand(rng, Rows(k_ds_sqr), Cols(k_ds_sqr)))
    /\ rng' = RngSkip(rng, Rows(k_ds_sqr) * Cols(k_ds_sqr))
    /\ pc' = "scale"
    /\ UNCHANGED <<P, alpha_arg, ds_factor, threshold, rng0, k, k_ds_sqr,
                   slope, alpha, scale, g, r, P_u, tophat, P_agg, r_agg,
                   outcome, first>>

\* lines 95-97: fg *= np.sqrt(k_ds_sqr ** (-alpha / 2)), warnings ignored
Scale ==
    /\ pc = "scale"
    /\ scale' = Array(Rows(fg), Cols(fg),
                      LAMBDA i, j : ScaleFactor(k_ds_sqr[i][j], alpha))
    /\ fg' = Array(Rows(fg), Cols(fg),
                   LAMBDA i, j : CMul(fg[i][j], <<scale'[i][j], Zero>>))
    /\ pc' = "zero_dc"
    /\ UNCHANGED <<P, alpha_arg, ds_factor, threshold, rng, rng0, k, k_ds_sqr,
                   slope, alpha, g, r, P_u, tophat, P_agg, r_agg, outcome,
                   first>>

\* line 98 left out: the coefficient keeps the value the scaling gave it
ZeroDC_Skipped ==
    /\ pc = "zero_dc"
    /\ pc' = "ifft"
    /\ UNCHANGED <<P, alpha_arg, ds_factor, threshold, rng, rng0, k, k_ds_sqr,
                   slope, alpha, scale, fg, g, r, P_u, tophat, P_agg, r_agg,
                   outcome, first>>

\* line 98: fg[0, 0] = 0
ZeroDC ==
    /\ pc = "zero_dc"
    /\ fg' = [fg EXCEPT ![1][1] = CZero]
    /\ pc' = "ifft"
    /\ UNCHANGED <<P, alpha_arg, ds_factor, threshold, rng, rng0, k, k_ds_sqr,
                   slope, alpha, scale, g, r, P_u, tophat, P_agg, r_agg,
                   outcome, first>>

\* line 99: g = np.fft.ifft2(fg).real
Ifft ==
    /\ pc = "ifft"
    /\ g' = ifft2_real(fg)
    /\ pc' = "normalize"
    /\ UNCHANGED <<P, alpha_arg, ds_factor, threshold, rng, rng0, k, k_ds_sqr,
                   slope, alpha, scale, fg, r, P_u, tophat, P_agg, r_agg,
                   outcome, first>>

\* line 100: g /= g.std(); a zero divisor raises nothing
Normalize ==
    /\ pc = "normalize"
    /\ g' = Over(g, Std(g))
    /\ pc' = "exp"
    /\ UNCHANGED <<P, alpha_arg, ds_factor, threshold, rng, rng0, k, k_ds_sqr,
                   slope, alpha, scale, fg, r, P_u, tophat, P_agg, r_agg,
                   outcome, first>>

\* line 101: r = np.exp(g)
Exponentiate ==
    /\ pc = "exp"
    /\ r' = Array(Rows(g), Cols(g), LAMBDA i, j : Exp(g[i][j]))
    /\ pc' = "upsample"
    /\ UNCHANGED <<P, alpha_arg, ds_factor, threshold, rng, rng0, k, k_ds_sqr,
                   slope, alpha, scale, fg, g, P_u, tophat, P_agg, r_agg,
                   outcome, first>>

\* lines 103-107: the pixel-replicated input and the disc kernel
Upsample ==
    /\ pc = "upsample"
    /\ P_u' = Repeat(P, ds_factor)
    /\ tophat' = TopHat(Radius(ds_factor))
    /\ pc' = "aggregate"
    /\ UNCHANGED <<P, alpha_arg, ds_factor, threshold, rng, rng0, k, k_ds_sqr,
                   slope, alpha, scale, fg, g, r, P_agg, r_agg, outcome,
                   first>>

\* lines 109-110: the two balanced local averages
Aggregate ==
    /\ pc = "aggregate"
    /\ P_agg' = balanced_spatial_average(P_u, tophat)
    /\ r_agg' = balanced_spatial_average(r, tophat)
    /\ pc' = "rescale"
    /\ UNCHANGED <<P, alpha_arg, ds_factor, threshold, rng, rng0, k, k_ds_sqr,
                   slope, alpha, scale, fg, g, r, P_u, tophat, outcome, first>>

\* line 111 without the division: r *= P_agg
Rescale_NoDivision ==
    /\ pc = "rescale"
    /\ r' = Times(r, P_agg)
    /\ pc' = "threshold"
    /\ UNCHANGED <<P, alpha_arg, ds_factor, threshold, rng, rng0, k, k_ds_sqr,
                   slope, alpha, scale, fg, g, P_u, tophat, P_agg, r_agg,
                   outcome, first>>

\* line 111: r *= P_agg / r_agg, elementwise over r
Rescale ==
    /\ pc = "rescale"
    /\ r' = Times(r, Ratio(P_agg, r_agg))
    /\ pc' = "threshold"
    /\ UNCHANGED <<P, alpha_arg, ds_factor, threshold, rng, rng0, k, k_ds_sqr,
                   slope, alpha, scale, fg, g, P_u, tophat, P_agg, r_agg,
                   outcome, first>>

\* line 114: r[r < t] = 0
Censor(A, t) ==
    Array(Rows(A), Cols(A),
          LAMBDA i, j : IF Lt(A[i][j], t) THEN Zero ELSE A[i][j])

\* lines 113-116: r[r < threshold] = 0 when a threshold is given; return r
Threshold ==
    /\ pc = "threshold"
    /\ r' = IF threshold = None THEN r ELSE Censor(r, threshold)
    /\ outcome' = "returned"
    /\ pc' = "done"
    /\ UNCHANGED <<P, alpha_arg, ds_factor, threshold, rng, rng0, k, k_ds_sqr,
                   slope, alpha, scale, fg, g, P_u, tophat, P_agg, r_agg,
                   first>>

\* the call is over (a result or an exception is with the caller): its
\* locals are gone, the random source keeps its state.  With record, the
\* first call completed is remembered: where the random source stood, the
\* arguments, and what came back.
Return(record) ==
    /\ pc = "done"
    /\ pc' = "idle"
    /\ first' = IF record /\ first = None
                THEN <<rng0, P, alpha_arg, ds_factor, threshold, outcome, r>>
                ELSE first
    /\ P' = None /\ alpha_arg' = None /\ ds_factor' = None
    /\ threshold' = None /\ rng0' = None /\ k' = None /\ k_ds_sqr' = None
    /\ slope' = None /\ alpha' = None /\ scale' = None /\ fg' = None
    /\ g' = None /\ r' = None /\ P_u' = None /\ tophat' = None
    /\ P_agg' = None /\ r_agg' = None /\ outcome' = "none"
    /\ UNCHANGED rng

Init ==
    /\ pc = "idle"
    /\ rng \in 0..(RngMod - 1)
    /\ P = None /\ alpha_arg = None /\ ds_factor = None /\ threshold = None
    /\ rng0 = None /\ k = None /\ k_ds_sqr = None /\ slope = None
    /\ alpha = None /\ scale = None /\ fg = None /\ g = None /\ r = None
    /\ P_u = None /\ tophat = None /\ P_agg = None /\ r_agg = None
    /\ outcome = "none"
    /\ first = None

Steps ==
    \/ Estimate
    \/ Phases
    \/ Scale
    \/ ZeroDC
    \/ Ifft
    \/ Normalize
    \/ Exponentiate
    \/ Upsample
    \/ Aggregate
    \/ Rescale
    \/ Threshold

Next ==
    \/ Call(Fields, AlphaArgs, ThresholdArgs)
    \/ Call(WideFields, {None}, {None})
    \/ Steps
    \/ Return(FALSE)

Spec == Init /\ [][Next]_vars

\* the same program with the first completed call remembered
NextDet ==
    \/ Call(DetFields, {None, Int2R(4)}, {One})
    \/ Steps
    \/ Return(TRUE)

SpecDet == Init /\ [][NextDet]_vars

----------------------------------------------------------------------------
(* The properties.                                                         *)

AllCells(A, p(_)) == \A i \in 1..Rows(A), j \in 1..Cols(A) : p(A[i][j])

SomeCell(A, p(_)) == \E i \in 1..Rows(A), j \in 1..Cols(A) : p(A[i][j])

NonNegative(x) == Le(Zero, x)

\* (m * ds_factor, n * ds_factor) for the input shape (m, n)
OutShape == <<Rows(P) * ds_factor, Cols(P) * ds_factor>>

\* C1: every array of the upsampled grid (the frequency grid, the spectrum,
\* the synthetic field, the pixel-replicated input, the two local averages)
\* and the array returned have the shape (m * ds_factor, n * ds_factor).
C1_ShapeLaw ==
    /\ k_ds_sqr # None => Shape(k_ds_sqr) = OutShape
    /\ fg # None => Shape(fg) = OutShape
    /\ g # None => Shape(g) = OutShape
    /\ r # None => Shape(r) = OutShape
    /\ P_u # None => Shape(P_u) = OutShape
    /\ P_agg # None => Shape(P_agg) = OutShape
    /\ r_agg # None => Shape(r_agg) = OutShape

\* a call on a field with m # n and a factor above 1 has returned
C1_Witness ==
    /\ outcome = "returned"
    /\ Rows(P) # Cols(P)
    /\ ds_factor > 1
    /\ alpha_arg # None

\* C2: every value of a returned field is >= 0.
C2_NonNegative == outcome = "returned" => AllCells(r, NonNegative)

\* C3: with a threshold t, every value of the returned field is 0 or >= t.
C3_ZeroOrAboveThreshold ==
    (outcome = "returned" /\ threshold # None)
        => AllCells(r, LAMBDA x : x = Zero \/ Le(threshold, x))

\* |x - y| <= max(|x|, |y|) / 4, for finite x and y
Magnitude(x) == IF x[1] < 0 THEN Neg(x) ELSE x

Close(x, y) ==
    /\ IsFinite(x)
    /\ IsFinite(y)
    /\ Le(Magnitude(Sub(x, y)),
          Mul(Frac(1, 4), Max2(Magnitude(x), Magnitude(y))))

\* the balanced local average of the rescaled field is close to that of
\* the pixel-replicated input at every pixel
Conserved(r_avg) ==
    \A i \in 1..Rows(r), j \in 1..Cols(r) : Close(r_avg[i][j], P_agg[i][j])

Footprint(i, j) ==
    {<<Reflect(i - (t[1] - (Rows(tophat) \div 2) - 1), Rows(r)),
       Reflect(j - (t[2] - (Cols(tophat) \div 2) - 1), Cols(r))>> :
        t \in {Taps(tophat)[n] : n \in 1..Len(Taps(tophat))}}

\* the input's local average is zero, and the synthetic field's is a
\* positive number, all over the footprint of pixel (i, j)
DryAround(i, j) ==
    \A c \in Footprint(i, j) :
        /\ P_agg[c[1]][c[2]] = Zero
        /\ IsFinite(r_agg[c[1]][c[2]])
        /\ Lt(Zero, r_agg[c[1]][c[2]])

\* the rescaled field reproduces the input's local average at dry pixels
DryConserved(r_avg) ==
    \A i \in 1..Rows(r), j \in 1..Cols(r) :
        DryAround(i, j) => r_avg[i][j] = P_agg[i][j]

C5_SmallFieldRaises ==
    (pc = "done" /\ alpha_arg = None /\ Shape(P) = <<2, 2>>)
        => outcome # "returned"

\* C6: a returned field contains no inf and no NaN.
C6_NoNaNReturned == outcome = "returned" => AllCells(r, IsFinite)

\* C7, as stated, for an estimated alpha: it is non-negative.
C7_EstimateNonNegative ==
    (alpha_arg = None /\ alpha # None) => Le(Zero, alpha)

\* C7, amended: the exponent in use is the caller's alpha unchanged, of
\* either sign, or the negated least-squares slope of log-power against
\* log-frequency, of either sign; the scaling uses that exponent.
C7_AlphaIsArgOrNegatedSlope ==
    /\ (alpha_arg # None /\ alpha # None) => alpha = alpha_arg
    /\ (alpha_arg = None /\ alpha # None)
           => /\ slope = EstimateSlope(P, k).slope
              /\ alpha = Neg(slope)
    /\ scale # None
           => \A i \in 1..Rows(scale), j \in 1..Cols(scale) :
                  scale[i][j] = ScaleFactor(k_ds_sqr[i][j], alpha)

\* a negative estimated alpha has been applied by the scaling
C7_Witness ==
    /\ pc = "zero_dc"
    /\ alpha_arg = None
    /\ Lt(alpha, Zero)

\* C8: a completed call started from the same random-source state with the
\* same arguments as the first completed call has the same outcome and
\* returns the same field, whatever calls ran in between.
C8_Deterministic ==
    (/\ pc = "done"
     /\ first # None
     /\ first[1] = rng0
     /\ first[2] = P
     /\ first[3] = alpha_arg
     /\ first[4] = ds_factor
     /\ first[5] = threshold)
        => /\ first[6] = outcome
           /\ first[7] = r

\* a later call repeats the first one and returns a field
C8_Witness ==
    /\ pc = "done"
    /\ first # None
    /\ first[1] = rng0
    /\ first[2] = P
    /\ first[3] = alpha_arg
    /\ first[4] = ds_factor
    /\ first[5] = threshold
    /\ outcome = "returned"
    /\ Rows(r) * Cols(r) > 1

\* the magnitude of every scaled coefficient with k_ds # 0 is close to
\* power(k_ds, alpha)
ScaledBy(power(_, _)) ==
    \A i \in 1..Rows(fg), j \in 1..Cols(fg) :
        k_ds_sqr[i][j] # Zero
            => Close(CAbs(fg[i][j]), power(Sqrt(k_ds_sqr[i][j]), alpha))

\* C9, as stated: after the scaling with an alpha >= 0, the magnitude of
\* every coefficient with k_ds # 0 is k_ds ** (-alpha).
C9_ScaleIsFullPower ==
    (pc = "zero_dc" /\ Le(Zero, alpha))
        => ScaledBy(LAMBDA kd, a : Pow(kd, Neg(a)))

\* C9, amended: after the scaling, the magnitude of every coefficient with
\* k_ds # 0 is k_ds ** (-alpha / 2).
C9_ScaleIsHalfPower ==
    pc = "zero_dc" => ScaledBy(LAMBDA kd, a : Pow(kd, Mul(Neg(a), Half)))

\* a positive alpha has been applied at a frequency other than 0 and 1
C9_Witness ==
    /\ pc = "zero_dc"
    /\ Lt(Zero, alpha)
    /\ SomeCell(k_ds_sqr, LAMBDA x : x # Zero /\ x # One)

\* C10: the zero-frequency coefficient is exactly 0 when the inverse
\* transform is taken, and what the transform yields is finite.
C10_ZeroDC ==
    /\ pc = "ifft" => fg[1][1] = CZero
    /\ pc = "normalize" => AllCells(g, IsFinite)

\* the inverse transform is about to be taken after the scaling divided
\* by zero at the zero frequency
C10_Witness ==
    /\ pc = "ifft"
    /\ Lt(Zero, alpha)
    /\ scale[1][1] = PInf

====
